---- MODULE Spec2Model ----
(***************************************************************************)
(* stock-quant-dashboard: the run-tracked pipeline (pipeline.py), its      *)
(* ledger and stores (db.py), the upsert persister (jobs/persist.py), the  *)
(* indicator engine (jobs/run_quant.py) and the snapshot refresh           *)
(* (jobs/update_dashboard.py).                                             *)
(*                                                                         *)
(* Units.  Prices are integers in cents (fetch_data.py rounds every price  *)
(* to 2 decimals), sma_5 is an integer in 1e-4 (round(4)), momentum_5d an  *)
(* integer in 1e-6 (round(6)).  A stored row carries `close` for its value *)
(* columns: open/high/low/volume travel through the same code paths as     *)
(* close and are never read by the pipeline.  Time is an integer clock     *)
(* read by utcnow().  A message is modelled by its length.                 *)
(***************************************************************************)
EXTENDS Integers, Sequences, FiniteSets, TLC

VARIABLES
    dialect,       \* engine.dialect.name of the configured database
    rowwise,       \* the driver applies a multi-row insert one row at a time
    clock,         \* what utcnow() returns
    db,            \* committed tables: runs, bars, metrics, snaps
    sess,          \* the tables as the open Session sees them (db + pending)
    pc,            \* position of run_pipeline
    issued,        \* number of run ids new_run_id() has returned
    run_id,        \* local run_id
    prices,        \* local prices
    metrics,       \* local metrics
    rows_written,  \* local rows_written
    details,       \* local details
    counts,        \* locals price_rows, metric_rows and snapshot_result
    exc,           \* the exception being handled (Null when none)
    raised,        \* what the last finished invocation raised to its caller
    file,          \* run_id carried by the dashboard output file (Null: no file)
    faulted,       \* a fetch/storage step of the current run has failed
    atOpen,        \* the committed data tables when the current run opened
    retention_days,\* config.snapshot_retention_days
    call,          \* record of the last _upsert_rows call (store-level checks)
    statuses,      \* statuses written to the current run's ledger row, in order
    stopped        \* where the last invocation was when the process stopped

vars == <<dialect, rowwise, clock, db, sess, pc, issued, run_id, prices, metrics,
          rows_written, details, counts, exc, raised, file, faulted, atOpen,
          retention_days, call, statuses, stopped>>

-----------------------------------------------------------------------------
(* Bounds of the model. *)
MaxDay == 1
MaxClose == 2
MaxFetch == 1
MaxBatch == 2
HistDays == 6
MaxApply == 2
MaxRuns == 2
MaxClock == 1
MsgOver == 1
MaxAge == 3
MaxRetention == 2
SpanDays == 2
MaxTable == 3
MaxPicks == 2
MinObs == 5
MaxObs == 10

(* Program constants. *)
SmaWindow == 5
MomentumLag == 5
SmaScale == 100
MomScale == 1000000
ErrorMessageCap == 500
NoDataMsgLen == 37
TypeErrorMsgLen == 113
ScoreFloor == 55

Null == <<>>
Some(v) == <<v>>

Symbols == {"X", "Y"}
Dialects == {"sqlite", "postgresql", "other"}
Days == 1..MaxDay
Closes == 1..MaxClose
Times == 0..MaxClock

\* ORDER BY symbol / sort_values on the symbol column
SymRank(s) == IF s = "X" THEN 1 ELSE 2

PriceRows == [symbol : Symbols, trade_date : Days, close : Closes]

RECURSIVE SeqsUpTo(_, _)
SeqsUpTo(S, n) ==
    IF n = 0 THEN {<<>>}
    ELSE LET shorter == SeqsUpTo(S, n - 1)
         IN  shorter \cup {Append(q, x) : q \in {s \in shorter : Len(s) = n - 1}, x \in S}

\* the provider's close of a symbol on a day
Quote(s, d) == d
QuotedRows == {r \in PriceRows : r.close = Quote(r.symbol, r.trade_date)}

\* what fetch_market_data may hand back: any list of bars, possibly empty, a
\* bar more than once when config.symbols or the provider's index repeats
FetchResults == SeqsUpTo(QuotedRows, MaxFetch)

Min(a, b) == IF a < b THEN a ELSE b

\* round(n / d) to the nearest integer, ties to even (numpy / Python round)
RoundHalfEven(n, d) ==
    LET q == n \div d
        r == n % d
    IN  IF 2 * r < d THEN q
        ELSE IF 2 * r > d THEN q + 1
        ELSE IF q % 2 = 0 THEN q ELSE q + 1

Key(r) == <<r.symbol, r.trade_date>>

-----------------------------------------------------------------------------
(* Indicator engine: jobs/run_quant.py *)

\* df.sort_values(["symbol", "trade_date"]): lexicographic, stable
RowBefore(rows, i, j) ==
    LET a == rows[i]
        b == rows[j]
    IN  \/ SymRank(a.symbol) < SymRank(b.symbol)
        \/ a.symbol = b.symbol /\ a.trade_date < b.trade_date
        \/ a.symbol = b.symbol /\ a.trade_date = b.trade_date /\ i < j

SortPos(rows, i) == 1 + Cardinality({j \in DOMAIN rows : RowBefore(rows, j, i)})

\* position of row i inside its symbol group
GroupPos(rows, i) ==
    1 + Cardinality({j \in DOMAIN rows :
                        rows[j].symbol = rows[i].symbol /\ RowBefore(rows, j, i)})

RECURSIVE SumClose(_, _)
SumClose(rows, S) ==
    IF S = {} THEN 0
    ELSE LET j == CHOOSE k \in S : TRUE
         IN  rows[j].close + SumClose(rows, S \ {j})

\* s.rolling(window=5, min_periods=1): the row and up to 4 rows before it
RollingIdx(rows, i) ==
    {j \in DOMAIN rows :
        /\ rows[j].symbol = rows[i].symbol
        /\ GroupPos(rows, j) \in (GroupPos(rows, i) - SmaWindow + 1)..GroupPos(rows, i)}

\* groupby("symbol")["close"].shift(5)
ShiftIdx(rows, i) ==
    {j \in DOMAIN rows :
        /\ rows[j].symbol = rows[i].symbol
        /\ GroupPos(rows, j) = GroupPos(rows, i) - MomentumLag}

MetricRow(rows, i) ==
    LET win   == RollingIdx(rows, i)
        total == SumClose(rows, win)
        n     == Cardinality(win)
        lag   == ShiftIdx(rows, i)
        c     == rows[i].close
        base  == rows[CHOOSE j \in lag : TRUE].close
        \* the signal is taken from the unrounded mean and momentum
        above == c * n > total
        up    == lag # {} /\ c > base
    IN  [symbol      |-> rows[i].symbol,
         trade_date  |-> rows[i].trade_date,
         close       |-> c,
         sma_5       |-> RoundHalfEven(SmaScale * total, n),
         momentum_5d |-> IF lag = {} THEN 0 ELSE RoundHalfEven(MomScale * (c - base), base),
         signal      |-> IF above /\ up THEN "BUY" ELSE "SELL"]

\* an engine that dates each row one day after its bar
compute_quant_metrics_lagged(price_rows) ==
    IF price_rows = <<>> THEN <<>>
    ELSE [k \in 1..Len(price_rows) |->
            [MetricRow(price_rows,
                       CHOOSE i \in DOMAIN price_rows : SortPos(price_rows, i) = k)
                EXCEPT !.trade_date = @ + 1]]

compute_quant_metrics(price_rows) ==
    IF price_rows = <<>> THEN <<>>
    ELSE [k \in 1..Len(price_rows) |->
            MetricRow(price_rows,
                      CHOOSE i \in DOMAIN price_rows : SortPos(price_rows, i) = k)]

-----------------------------------------------------------------------------
(* Upsert persister: jobs/persist.py *)

\* {**row, "updated_at": now}
Enrich(row, now) ==
    [f \in DOMAIN row \cup {"updated_at"} |-> IF f = "updated_at" THEN now ELSE row[f]]

HasDuplicateKey(rows) ==
    \E i, j \in DOMAIN rows : i < j /\ Key(rows[i]) = Key(rows[j])

\* an INSERT that ignores the key
UpsertOne_append(table, row) == table \cup {row}

\* INSERT ... ON CONFLICT (pk) DO UPDATE SET every non-key column = excluded
UpsertOne(table, row) == {x \in table : Key(x) # Key(row)} \cup {row}

RECURSIVE UpsertEach(_, _)
UpsertEach(table, rows) ==
    IF rows = <<>> THEN table
    ELSE UpsertEach(UpsertOne(table, Head(rows)), Tail(rows))

\* table.delete().where(pk = row pk), once per row of the batch
DeleteKeys(table, rows) ==
    {x \in table : \A i \in DOMAIN rows : Key(x) # Key(rows[i])}

\* the rows of a batch in front of the first one that repeats an earlier key
RECURSIVE FreshPrefix(_, _)
FreshPrefix(rows, seen) ==
    IF rows = <<>> \/ Key(Head(rows)) \in seen THEN {}
    ELSE {Head(rows)} \cup FreshPrefix(Tail(rows), seen \cup {Key(Head(rows))})

\* session.execute(table.insert(), rows) into a table cleared of the batch's keys
InsertMany(table, rows, perRow) ==
    IF HasDuplicateKey(rows)
    THEN [table  |-> IF perRow THEN table \cup FreshPrefix(rows, {}) ELSE table,
          raised |-> "IntegrityError"]
    ELSE [table  |-> table \cup {rows[i] : i \in DOMAIN rows},
          raised |-> "none"]

len_enriched_rows(rows) == Len(rows)

_upsert_rows(table, rows, dia, perRow, now) ==
    IF rows = <<>> THEN [table |-> table, raised |-> "none", count |-> 0]
    ELSE
      LET enriched_rows == [i \in DOMAIN rows |-> Enrich(rows[i], now)]
      IN  IF dia = "sqlite"
          THEN [table  |-> UpsertEach(table, enriched_rows),
                raised |-> "none",
                count  |-> len_enriched_rows(enriched_rows)]
          ELSE IF dia = "postgresql"
          THEN IF HasDuplicateKey(enriched_rows)
               \* ON CONFLICT DO UPDATE command cannot affect row a second time
               THEN [table |-> table, raised |-> "CardinalityViolation", count |-> 0]
               ELSE [table  |-> UpsertEach(table, enriched_rows),
                     raised |-> "none",
                     count  |-> len_enriched_rows(enriched_rows)]
          ELSE LET ins == InsertMany(DeleteKeys(table, enriched_rows), enriched_rows, perRow)
               IN  [table  |-> ins.table,
                    raised |-> ins.raised,
                    count  |-> IF ins.raised = "none"
                               THEN len_enriched_rows(enriched_rows) ELSE 0]

-----------------------------------------------------------------------------
(* Run ledger and snapshot store: db.py *)

\* a run id that is not fresh
new_run_id_fixed(n) == 1


new_run_id(n) == n + 1

record_run_started(runs, rid, now) ==
    runs \cup {[run_id        |-> rid,
                started_at    |-> now,
                finished_at   |-> Null,
                status        |-> "RUNNING",
                rows_written  |-> 0,
                details       |-> Null,
                error_message |-> Null]}

\* the UPDATE that leaves rows_written at its initial 0
record_run_finished_unwritten(runs, rid, status, written, det, error_message, now) ==
    {IF r.run_id = rid
     THEN [r EXCEPT !.finished_at   = Some(now),
                    !.status        = status,
                    !.details       = det,
                    !.error_message = error_message]
     ELSE r : r \in runs}

\* the UPDATE without its WHERE clause
record_run_finished_all(runs, rid, status, written, det, error_message, now) ==
    {[r EXCEPT !.finished_at   = Some(now),
               !.status        = status,
               !.rows_written  = written,
               !.details       = det,
               !.error_message = error_message] : r \in runs}


record_run_finished(runs, rid, status, written, det, error_message, now) ==
    {IF r.run_id = rid
     THEN [r EXCEPT !.finished_at   = Some(now),
                    !.status        = status,
                    !.rows_written  = written,
                    !.details       = det,
                    !.error_message = error_message]
     ELSE r : r \in runs}

\* a DELETE that also takes the rows generated exactly at keep_after
delete_old_snapshots_inclusive(snaps, keep_after) ==
    [table    |-> {s \in snaps : ~(s.generated_at <= keep_after)},
     rowcount |-> Cardinality({s \in snaps : s.generated_at <= keep_after})]

\* DELETE FROM dashboard_snapshot WHERE generated_at < keep_after
delete_old_snapshots(snaps, keep_after) ==
    [table    |-> {s \in snaps : ~(s.generated_at < keep_after)},
     rowcount |-> Cardinality({s \in snaps : s.generated_at < keep_after})]

\* first row per symbol under ORDER BY symbol, trade_date DESC
get_latest_metrics(table) ==
    {m \in table : \A o \in table : o.symbol = m.symbol => o.trade_date <= m.trade_date}

(* Snapshot refresh: jobs/update_dashboard.py *)
refresh_dashboard_snapshot(snaps, metricsTable, rid, retention, now) ==
    LET payload == {[snapshot_id  |-> rid,
                     symbol       |-> row.symbol,
                     trade_date   |-> row.trade_date,
                     close        |-> row.close,
                     sma_5        |-> row.sma_5,
                     momentum_5d  |-> row.momentum_5d,
                     signal       |-> row.signal,
                     generated_at |-> now] : row \in get_latest_metrics(metricsTable)}
        pruned  == delete_old_snapshots(snaps \cup payload, now - retention)
    IN  [table                 |-> pruned.table,
         snapshot_rows         |-> Cardinality(payload),
         deleted_old_snapshots |-> pruned.rowcount]

-----------------------------------------------------------------------------
(* Session: sqlalchemy.orm.Session as run_pipeline uses it *)

session_commit(committed, pending) == pending
\* a handler that keeps the pending writes
session_rollback_none(committed, pending) == pending


session_rollback(committed, pending) == committed

\* str(exc) without the slice
truncate_message_none(len) == len

\* str(exc)[:500], on the length of the message
truncate_message(len) == Min(len, ErrorMessageCap)

\* export_dashboard_json's parameters, none with a default, and the keywords
\* run_pipeline passes; Python binds a call only when every required one is passed
ExportParameters ==
    {"session", "output_path", "run_id", "details", "timezone",
     "target_annual_return", "max_recommendations"}
ExportArguments == {"session", "output_path", "run_id", "details", "timezone"}
\* a call that binds whatever it is passed
CallBinds_lenient(parameters, arguments) == TRUE
CallBinds(parameters, arguments) == parameters \subseteq arguments

\* lengths of a driver's or provider's message: at the cap and beyond it
MsgLens == {ErrorMessageCap, ErrorMessageCap + MsgOver}

NoDetails == Null
NoCounts == [price_rows |-> 0, metric_rows |-> 0, snapshot_rows |-> 0,
             deleted_old_snapshots |-> 0]
EmptyTables == [runs |-> {}, bars |-> {}, metrics |-> {}, snaps |-> {}]
DataOf(t) == [bars |-> t.bars, metrics |-> t.metrics, snaps |-> t.snaps]
NoCall == [n |-> 0]

-----------------------------------------------------------------------------
(* run_pipeline: pipeline.py, one action per statement *)

TryPcs == {"fetch", "compute", "persist_prices", "persist_metrics", "snapshot",
           "record", "export"}

Init ==
    /\ dialect \in Dialects
    /\ rowwise \in (IF dialect = "other" THEN BOOLEAN ELSE {FALSE})
    /\ retention_days \in {0}
    /\ clock = 0
    /\ db = EmptyTables
    /\ sess = EmptyTables
    /\ pc = "idle"
    /\ issued = 0
    /\ run_id = 0
    /\ prices = <<>>
    /\ metrics = <<>>
    /\ rows_written = 0
    /\ details = NoDetails
    /\ counts = NoCounts
    /\ exc = Null
    /\ raised = Null
    /\ file = Null
    /\ faulted = FALSE
    /\ atOpen = DataOf(EmptyTables)
    /\ call = NoCall
    /\ statuses = <<>>
    /\ stopped = "none"

\* lines 42-47: a new Session sees the committed tables; insert the RUNNING row
Open ==
    /\ pc = "idle"
    /\ issued < MaxRuns
    /\ issued' = issued + 1
    /\ run_id' = new_run_id(issued)
    /\ rows_written' = 0
    /\ details' = NoDetails
    /\ counts' = NoCounts
    /\ prices' = <<>>
    /\ metrics' = <<>>
    /\ exc' = Null
    /\ faulted' = FALSE
    /\ sess' = [db EXCEPT !.runs = record_run_started(db.runs, run_id', clock)]
    /\ raised' = Null
    /\ pc' = "opened"
    /\ statuses' = <<"RUNNING">>
    /\ stopped' = "none"
    /\ UNCHANGED <<dialect, rowwise, clock, db, file, atOpen, retention_days, call>>

\* the RUNNING row left uncommitted
CommitOpen_skip ==
    /\ pc = "opened"
    /\ pc' = "fetch"
    /\ atOpen' = DataOf(db)
    /\ UNCHANGED <<dialect, rowwise, clock, db, sess, issued, run_id, prices, metrics,
                   rows_written, details, counts, exc, raised, file, faulted,
                   retention_days, call, statuses, stopped>>

\* line 48
CommitOpen ==
    /\ pc = "opened"
    /\ db' = session_commit(db, sess)
    /\ atOpen' = DataOf(db')
    /\ pc' = "fetch"
    /\ UNCHANGED <<dialect, rowwise, clock, sess, issued, run_id, prices, metrics,
                   rows_written, details, counts, exc, raised, file, faulted, retention_days, call, statuses, stopped>>

Raise(e) ==
    /\ exc' = Some(e)
    /\ pc' = "except"

\* lines 51-53
Fetch ==
    /\ pc = "fetch"
    /\ \E got \in FetchResults :
          /\ prices' = got
          /\ IF got = <<>>
             THEN Raise([kind |-> "RuntimeError", len |-> NoDataMsgLen])
             ELSE pc' = "compute" /\ exc' = exc
    /\ UNCHANGED <<dialect, rowwise, clock, db, sess, issued, run_id, metrics,
                   rows_written, details, counts, raised, file, faulted, atOpen,
                   retention_days, call, statuses, stopped>>

\* line 54
Compute ==
    /\ pc = "compute"
    /\ metrics' = compute_quant_metrics(prices)
    /\ pc' = "persist_prices"
    /\ UNCHANGED <<dialect, rowwise, clock, db, sess, issued, run_id, prices,
                   rows_written, details, counts, exc, raised, file, faulted, atOpen,
                   retention_days, call, statuses, stopped>>

\* line 56
PersistPrices ==
    /\ pc = "persist_prices"
    /\ LET r == _upsert_rows(sess.bars, prices, dialect, rowwise, clock)
       IN  /\ sess' = [sess EXCEPT !.bars = r.table]
           /\ IF r.raised = "none"
              THEN /\ counts' = [counts EXCEPT !.price_rows = r.count]
                   /\ pc' = "persist_metrics"
                   /\ UNCHANGED <<exc, faulted>>
              ELSE /\ \E n \in MsgLens : Raise([kind |-> r.raised, len |-> n])
                   /\ faulted' = TRUE
                   /\ UNCHANGED counts
    /\ UNCHANGED <<dialect, rowwise, clock, db, issued, run_id, prices, metrics,
                   rows_written, details, raised, file, atOpen, retention_days, call, statuses, stopped>>

\* line 57
PersistMetrics ==
    /\ pc = "persist_metrics"
    /\ LET r == _upsert_rows(sess.metrics, metrics, dialect, rowwise, clock)
       IN  /\ sess' = [sess EXCEPT !.metrics = r.table]
           /\ IF r.raised = "none"
              THEN /\ counts' = [counts EXCEPT !.metric_rows = r.count]
                   /\ pc' = "snapshot"
                   /\ UNCHANGED <<exc, faulted>>
              ELSE /\ \E n \in MsgLens : Raise([kind |-> r.raised, len |-> n])
                   /\ faulted' = TRUE
                   /\ UNCHANGED counts
    /\ UNCHANGED <<dialect, rowwise, clock, db, issued, run_id, prices, metrics,
                   rows_written, details, raised, file, atOpen, retention_days, call, statuses, stopped>>

\* lines 58-60
Snapshot ==
    /\ pc = "snapshot"
    /\ LET r == refresh_dashboard_snapshot(sess.snaps, sess.metrics, run_id,
                                           retention_days, clock)
       IN  /\ sess' = [sess EXCEPT !.snaps = r.table]
           /\ counts' = [counts EXCEPT !.snapshot_rows = r.snapshot_rows,
                                       !.deleted_old_snapshots = r.deleted_old_snapshots]
    /\ pc' = "record"
    /\ UNCHANGED <<dialect, rowwise, clock, db, issued, run_id, prices, metrics,
                   rows_written, details, exc, raised, file, faulted, atOpen,
                   retention_days, call, statuses, stopped>>

\* lines 62-75
RecordSuccess ==
    /\ pc = "record"
    /\ rows_written' = counts.price_rows + counts.metric_rows + counts.snapshot_rows
    /\ details' = Some(counts)
    /\ sess' = [sess EXCEPT !.runs = record_run_finished(sess.runs, run_id, "SUCCESS",
                                                         rows_written', details', Null, clock)]
    /\ pc' = "export"
    /\ statuses' = Append(statuses, "SUCCESS")
    /\ UNCHANGED <<dialect, rowwise, clock, db, issued, run_id, prices, metrics,
                   counts, exc, raised, file, faulted, atOpen, retention_days, call, stopped>>

\* lines 76-82: a call that binds runs the function body, which ends by
\* writing the output file under the run's id (export.py lines 229-234), and
\* goes on to the commit of line 83; a call that does not bind raises
\* TypeError before the body runs.  The call names five of the seven required
\* parameters, so it is the second that happens and the statements after the
\* call (lines 83-85: commit, log, return) are never reached
Export ==
    /\ pc = "export"
    /\ IF CallBinds(ExportParameters, ExportArguments)
       THEN /\ file' = Some(run_id)
            /\ pc' = "commit"
            /\ exc' = exc
       ELSE /\ Raise([kind |-> "TypeError", len |-> TypeErrorMsgLen])
            /\ file' = file
    /\ UNCHANGED <<dialect, rowwise, clock, db, sess, issued, run_id, prices, metrics,
                   rows_written, details, counts, raised, faulted, atOpen,
                   retention_days, call, statuses, stopped>>

\* a step inside the try block fails: provider, driver or storage error
Fault ==
    /\ pc \in TryPcs
    /\ \E n \in MsgLens : Raise([kind |-> "Error", len |-> n])
    /\ faulted' = TRUE
    /\ UNCHANGED <<dialect, rowwise, clock, db, sess, issued, run_id, prices, metrics,
                   rows_written, details, counts, raised, file, atOpen,
                   retention_days, call, statuses, stopped>>

\* line 87; prices, metrics and the step counts are not read after this point
Rollback ==
    /\ pc = "except"
    /\ sess' = session_rollback(db, sess)
    /\ prices' = <<>>
    /\ metrics' = <<>>
    /\ counts' = NoCounts
    /\ pc' = "record_failed"
    /\ UNCHANGED <<dialect, rowwise, clock, db, issued, run_id, rows_written, details,
                   exc, raised, file, faulted, atOpen, retention_days, call, statuses, stopped>>

\* lines 88-95
RecordFailed ==
    /\ pc = "record_failed"
    /\ sess' = [sess EXCEPT !.runs =
                   record_run_finished(sess.runs, run_id, "FAILED", rows_written, details,
                                       Some(truncate_message(exc[1].len)), clock)]
    /\ pc' = "commit_failed"
    /\ statuses' = Append(statuses, "FAILED")
    /\ UNCHANGED <<dialect, rowwise, clock, db, issued, run_id, prices, metrics,
                   rows_written, details, counts, exc, raised, file, faulted, atOpen,
                   retention_days, call, stopped>>

\* line 96
CommitFailed ==
    /\ pc = "commit_failed"
    /\ db' = session_commit(db, sess)
    /\ pc' = "reraise"
    /\ UNCHANGED <<dialect, rowwise, clock, sess, issued, run_id, prices, metrics,
                   rows_written, details, counts, exc, raised, file, faulted, atOpen,
                   retention_days, call, statuses, stopped>>

\* the frame of run_pipeline is gone
LocalsDropped ==
    /\ prices' = <<>>
    /\ metrics' = <<>>
    /\ counts' = NoCounts
    /\ rows_written' = 0
    /\ details' = NoDetails
    /\ exc' = Null

\* lines 97-98: log, `raise`; leaving the with block closes the session
Reraise ==
    /\ pc = "reraise"
    /\ raised' = exc
    /\ sess' = db
    /\ pc' = "idle"
    /\ LocalsDropped
    /\ UNCHANGED <<dialect, rowwise, clock, db, issued, run_id, file, faulted, atOpen,
                   retention_days, call, statuses, stopped>>

\* the process stops inside an invocation: the connection is dropped and the
\* database discards whatever the session had not committed
Crash ==
    /\ pc # "idle"
    /\ sess' = db
    /\ pc' = "idle"
    /\ LocalsDropped
    /\ stopped' = pc
    /\ UNCHANGED <<dialect, rowwise, clock, db, issued, run_id, raised, file, faulted,
                   atOpen, retention_days, call, statuses>>

\* time passes, between invocations and while the provider is polled
Tick ==
    /\ pc \in {"idle", "fetch"}
    /\ clock < MaxClock
    /\ clock' = clock + 1
    /\ UNCHANGED <<dialect, rowwise, db, sess, pc, issued, run_id, prices, metrics,
                   rows_written, details, counts, exc, raised, file, faulted, atOpen,
                   retention_days, call, statuses, stopped>>

Next ==
    \/ Open \/ CommitOpen \/ Fetch \/ Compute \/ PersistPrices \/ PersistMetrics
    \/ Snapshot \/ RecordSuccess \/ Export \/ Fault \/ Rollback \/ RecordFailed
    \/ CommitFailed \/ Reraise \/ Crash \/ Tick

Spec == Init /\ [][Next]_vars

-----------------------------------------------------------------------------
(* Properties of run_pipeline, checked under Spec *)

Terminal == {"SUCCESS", "FAILED"}
RowsOf(t, rid) == {r \in t.runs : r.run_id = rid}
LedgerRow(t, rid) == CHOOSE r \in t.runs : r.run_id = rid

\* the last invocation has left run_pipeline by raising
Handled == pc = "idle" /\ raised # Null
\* from the committed RUNNING row up to, not including, the terminal commit
MidRun == TryPcs \cup {"except", "record_failed", "commit_failed"}

C2_AllOrNothing ==
    /\ \A r \in db.runs :
          r.status # "SUCCESS" => \A s \in db.snaps : s.snapshot_id # r.run_id
    /\ \A r \in RowsOf(db, run_id) :
          /\ r.status # "SUCCESS" => DataOf(db) = atOpen
          /\ r.status = "SUCCESS" /\ pc # "idle" => DataOf(db) = DataOf(sess)
    /\ {Key(b) : b \in db.bars} = {Key(m) : m \in db.metrics}
    /\ db.metrics # {} => db.snaps # {}

\* a run that wrote bars, metrics and a snapshot, then failed
C2_Witness ==
    /\ Handled
    /\ raised[1].kind = "TypeError"
    /\ LedgerRow(db, run_id).status = "FAILED"
    /\ LedgerRow(db, run_id).rows_written >= 3
    /\ DataOf(db) = atOpen

\* C3 as claimed: the statuses written to a run's ledger row are RUNNING and
\* then at most one of SUCCESS or FAILED; a row that has been set to SUCCESS or
\* FAILED is not written again.
C3_WrittenOnce ==
    /\ Len(statuses) <= 2
    /\ \A i \in 1..Len(statuses) : i < Len(statuses) => statuses[i] = "RUNNING"

\* C3 as amended: in the committed ledger a row enters as RUNNING, is never
\* removed, changes at most once, from RUNNING to SUCCESS or FAILED, and once
\* committed as SUCCESS or FAILED is never changed by any later step of any
\* invocation.
C3_CommittedOnce ==
    [][/\ \A r \in db.runs :
             /\ \E q \in db'.runs : q.run_id = r.run_id
             /\ r.status \in Terminal => r \in db'.runs
             /\ r.status = "RUNNING" =>
                   \A q \in RowsOf(db', r.run_id) : q = r \/ q.status \in Terminal
       /\ \A q \in db'.runs :
             RowsOf(db, q.run_id) = {} =>
                q.status = "RUNNING" /\ q.rows_written = 0 /\ q.finished_at = Null]_vars

\* a second run went from an uncommitted SUCCESS to a committed FAILED beside
\* the terminal row of the first
C3_Witness ==
    /\ statuses = <<"RUNNING", "SUCCESS", "FAILED">>
    /\ Handled
    /\ Cardinality({r \in db.runs : r.status = "FAILED"}) = 2

C4_State ==
    /\ \A i \in 1..issued : Cardinality(RowsOf(db, i)) <= 1
    /\ \A r \in db.runs : r.run_id \in 1..issued
    /\ (pc \notin {"idle", "opened"} \/ Handled) =>
          Cardinality(RowsOf(db, run_id)) = 1
    /\ Handled =>
          /\ LedgerRow(db, run_id).status = "FAILED"
          /\ LedgerRow(db, run_id).finished_at # Null

C4_Step ==
    /\ \A r \in db.runs : r.run_id # run_id' => r \in db'.runs
    /\ \A q \in db'.runs : q \notin db.runs => q.run_id = run_id'
    /\ issued' # issued => RowsOf(db, run_id') = {} /\ RowsOf(sess, run_id') = {}

CleanRunOver ==
    /\ pc = "idle"
    /\ issued > 0
    /\ stopped = "none"
    /\ ~faulted
    /\ ~(raised # Null /\ raised[1] = [kind |-> "RuntimeError", len |-> NoDataMsgLen])

\* C5 as claimed: a run that fetched at least one bar and met no storage
\* failure ends SUCCESS, with its bars, metrics and snapshot rows committed
\* and the output file carrying its run id.
C5_CleanRunSucceeds ==
    CleanRunOver =>
        /\ RowsOf(db, run_id) # {}
        /\ LedgerRow(db, run_id).status = "SUCCESS"
        /\ db.bars # {} /\ db.metrics # {}
        /\ \E s \in db.snaps : s.snapshot_id = run_id
        /\ file = Some(run_id)

\* C6: from the commit of the RUNNING row to the commit of the terminal update,
\* and after the process stops anywhere in between, the committed ledger holds
\* the run as RUNNING with rows_written 0 and no finished_at, and the committed
\* data tables are those of the run's opening.
C6_RunningRowCommittedFirst ==
    LET at == IF pc = "idle" THEN stopped ELSE pc
    IN  at \in MidRun =>
          /\ Cardinality(RowsOf(db, run_id)) = 1
          /\ LedgerRow(db, run_id).status = "RUNNING"
          /\ LedgerRow(db, run_id).rows_written = 0
          /\ LedgerRow(db, run_id).finished_at = Null
          /\ DataOf(db) = atOpen

\* the process stopped after the run's writes and its SUCCESS update were pending
C6_Witness ==
    /\ pc = "idle"
    /\ stopped = "export"
    /\ LedgerRow(db, run_id).status = "RUNNING"
    /\ sess = db

\* rows the current run has handed to the stores inside its transaction: the
\* bar batch, the indicator batch, and the snapshot rows inserted under its id
HandedOver ==
    Len(prices) + Len(metrics)
        + Cardinality({s \in sess.snaps : s.snapshot_id = run_id})

\* C11 as claimed: in every terminal ledger row rows_written is the number of
\* rows of that run that are committed in the stores, so a run whose writes
\* were all rolled back records 0.
C11_WrittenIsCommitted ==
    \A r \in db.runs :
        r.status \in Terminal =>
            r.rows_written =
                Cardinality({s \in db.snaps : s.snapshot_id = r.run_id})
                + (IF r.status = "SUCCESS" /\ r.details # Null
                   THEN r.details[1].price_rows + r.details[1].metric_rows ELSE 0)

C11_State ==
    /\ (pc \in {"export", "except"} /\ details # Null) => rows_written = HandedOver
    /\ (pc \in MidRun \cup {"reraise"} /\ details = Null) => rows_written = 0
    /\ pc = "reraise" =>
          /\ LedgerRow(db, run_id).status = "FAILED"
          /\ LedgerRow(db, run_id).rows_written = rows_written
          /\ \A s \in db.snaps : s.snapshot_id # run_id
          /\ DataOf(db) = atOpen

C11_Step ==
    /\ (pc \in {"except", "record_failed", "commit_failed"} /\ pc' # "idle") =>
          rows_written' = rows_written /\ details' = details
    /\ \A r \in db.runs : r.status \in Terminal => r \in db'.runs

\* C11 as amended: the rows_written of a terminal row is the number of rows
\* the run handed to the stores inside its transaction (bar batch length plus
\* indicator batch length plus snapshot rows inserted) when the run got past
\* the three write steps, and 0 when it failed before; it is recorded whether
\* or not those rows are committed, so a FAILED row whose writes were all
\* rolled back carries the full count.
C11_WrittenAsCounted == []C11_State /\ [][C11_Step]_vars

\* a FAILED row about to be left behind with a positive rows_written and
\* nothing of the run in the committed stores
C11_Witness ==
    /\ pc = "reraise"
    /\ rows_written >= 3
    /\ LedgerRow(db, run_id).rows_written = rows_written
    /\ db.bars = {} /\ db.metrics = {} /\ db.snaps = {}

-----------------------------------------------------------------------------
(* Store level: _upsert_rows on a table that already holds rows.  The table   *)
(* is price_data; quant_metrics goes through the same function with the same  *)
(* key columns.                                                               *)

Batches == SeqsUpTo(PriceRows, MaxBatch)

\* tables the persister may find: provider quotes written at time 0
StoredTables == SUBSET {Enrich(r, 0) : r \in QuotedRows}

InitUpsert ==
    /\ dialect \in Dialects
    /\ rowwise \in (IF dialect = "other" THEN BOOLEAN ELSE {FALSE})
    /\ retention_days = 0
    /\ clock = 0
    /\ \E t \in StoredTables : sess = [EmptyTables EXCEPT !.bars = t]
    /\ db = EmptyTables
    /\ pc = "idle"
    /\ issued = 0
    /\ run_id = 0
    /\ prices = <<>>
    /\ metrics = <<>>
    /\ rows_written = 0
    /\ details = NoDetails
    /\ counts = NoCounts
    /\ exc = Null
    /\ raised = Null
    /\ file = Null
    /\ faulted = FALSE
    /\ atOpen = DataOf(EmptyTables)
    /\ call = NoCall
    /\ statuses = <<>>
    /\ stopped = "none"

CallRecord(n, origin, before, batch, r) ==
    [n |-> n, origin |-> origin, before |-> before, batch |-> batch, now |-> clock,
     raised |-> r.raised, count |-> r.count]

\* persist_price_data(session, rows, engine)
UpsertCall ==
    /\ call.n = 0
    /\ \E batch \in Batches :
          LET r == _upsert_rows(sess.bars, batch, dialect, rowwise, clock)
          IN  /\ sess' = [sess EXCEPT !.bars = r.table]
              /\ call' = CallRecord(1, sess.bars, sess.bars, batch, r)
    /\ UNCHANGED <<dialect, rowwise, clock, db, pc, issued, run_id, prices, metrics,
                   rows_written, details, counts, exc, raised, file, faulted, atOpen,
                   retention_days, statuses, stopped>>

\* the same batch once more
UpsertAgain ==
    /\ call.n = 1
    /\ LET r == _upsert_rows(sess.bars, call.batch, dialect, rowwise, clock)
       IN  /\ sess' = [sess EXCEPT !.bars = r.table]
           /\ call' = CallRecord(2, call.origin, sess.bars, call.batch, r)
    /\ UNCHANGED <<dialect, rowwise, clock, db, pc, issued, run_id, prices, metrics,
                   rows_written, details, counts, exc, raised, file, faulted, atOpen,
                   retention_days, statuses, stopped>>

NextUpsert == UpsertCall \/ UpsertAgain \/ Tick

SpecUpsert == InitUpsert /\ [][NextUpsert]_vars

-----------------------------------------------------------------------------
(* Properties of _upsert_rows, checked under SpecUpsert *)

BatchKeys(batch) == {Key(batch[i]) : i \in DOMAIN batch}
\* the last row of the batch that carries key k
LastOf(batch, k) ==
    batch[CHOOSE i \in DOMAIN batch :
             /\ Key(batch[i]) = k
             /\ \A j \in DOMAIN batch : Key(batch[j]) = k => j <= i]
\* a table without its updated_at column
Values(table) == {[symbol |-> x.symbol, trade_date |-> x.trade_date, close |-> x.close] :
                    x \in table}
\* the rows of the batch are in the table as their last occurrence wrote them
StoredAsLast(table, batch, now) ==
    \A k \in BatchKeys(batch) :
        \E x \in table :
            /\ Key(x) = k
            /\ x.close = LastOf(batch, k).close
            /\ x.updated_at = now

\* C7 as claimed: after an upsert call, on whichever backend branch, the table
\* has one row per key at most, every key of the batch is in it with the
\* batch's values and the call's timestamp, and every other row is untouched.
C7_UpsertSemantics ==
    call.n >= 1 =>
        /\ \A a, b \in sess.bars : Key(a) = Key(b) => a = b
        /\ StoredAsLast(sess.bars, call.batch, call.now)
        /\ \A x \in call.before : Key(x) \notin BatchKeys(call.batch) => x \in sess.bars
        /\ \A x \in sess.bars : Key(x) \notin BatchKeys(call.batch) => x \in call.before

\* C8 as claimed: a batch that repeats a key is accepted on every branch, the
\* last occurrence is what is stored, and the count returned is the number of
\* distinct keys.
C8_DuplicateKeysTolerated ==
    (call.n >= 1 /\ HasDuplicateKey(call.batch)) =>
        /\ call.raised = "none"
        /\ StoredAsLast(sess.bars, call.batch, call.now)
        /\ call.count = Cardinality(BatchKeys(call.batch))

\* C9: upserting a batch a second time leaves the table with the keys and the
\* values, updated_at aside, that the first upsert left.
C9_Idempotent ==
    call.n = 2 =>
        /\ Values(sess.bars) = Values(call.before)
        /\ Cardinality(sess.bars) = Cardinality(call.before)

\* the first upsert overwrote a stored value and added a key, time passed, and
\* the second upsert went through
C9_Witness ==
    /\ call.n = 2
    /\ call.raised = "none"
    /\ \E x \in call.origin : \E y \in sess.bars : Key(x) = Key(y) /\ x.close # y.close
    /\ \E y \in sess.bars : \A x \in call.origin : Key(x) # Key(y)
    /\ \E x \in call.before : x.updated_at < call.now

-----------------------------------------------------------------------------
(* Store level: the data steps of a run (fetch, indicators, bar upsert, metric *)
(* upsert) applied to tables that hold what earlier applications wrote.       *)

\* fetch_market_data: symbol by symbol in the order of config.symbols, each
\* symbol's bars by ascending date
RECURSIVE DaysOf(_, _, _)
DaysOf(s, a, b) ==
    IF a > b THEN <<>>
    ELSE <<[symbol |-> s, trade_date |-> a, close |-> Quote(s, a)]>> \o DaysOf(s, a + 1, b)

RECURSIVE WindowOf(_, _, _)
WindowOf(syms, a, b) ==
    IF syms = <<>> THEN <<>>
    ELSE DaysOf(Head(syms), a, b) \o WindowOf(Tail(syms), a, b)

SymbolLists == {<<"X">>, <<"Y">>, <<"X", "Y">>}
FetchWindows == {WindowOf(syms, a, b) : syms \in SymbolLists, a \in 1..HistDays, b \in 1..HistDays}

InitStore ==
    /\ dialect \in Dialects
    /\ rowwise \in (IF dialect = "other" THEN BOOLEAN ELSE {FALSE})
    /\ retention_days = 0
    /\ clock = 0
    /\ sess = EmptyTables
    /\ db = EmptyTables
    /\ pc = "idle"
    /\ issued = 0
    /\ run_id = 0
    /\ prices = <<>>
    /\ metrics = <<>>
    /\ rows_written = 0
    /\ details = NoDetails
    /\ counts = NoCounts
    /\ exc = Null
    /\ raised = Null
    /\ file = Null
    /\ faulted = FALSE
    /\ atOpen = DataOf(EmptyTables)
    /\ call = NoCall
    /\ statuses = <<>>
    /\ stopped = "none"

\* pipeline.py lines 51-57 on the session's tables; a raise undoes the step
DataSteps ==
    /\ call.n < MaxApply
    /\ \E got \in FetchWindows :
          LET computed == compute_quant_metrics(got)
              p == _upsert_rows(sess.bars, got, dialect, rowwise, clock)
              m == _upsert_rows(sess.metrics, computed, dialect, rowwise, clock)
          IN  /\ prices' = got
              /\ metrics' = computed
              /\ sess' = IF got = <<>> \/ p.raised # "none" \/ m.raised # "none"
                         THEN sess
                         ELSE [sess EXCEPT !.bars = p.table, !.metrics = m.table]
    /\ call' = [n |-> call.n + 1]
    /\ UNCHANGED <<dialect, rowwise, clock, db, pc, issued, run_id, rows_written, details,
                   counts, exc, raised, file, faulted, atOpen, retention_days, statuses,
                   stopped>>

NextStore == DataSteps \/ Tick

SpecStore == InitStore /\ [][NextStore]_vars

\* the stored bars of a symbol up to a day, oldest first
HistoryUpTo(bars, s, d) ==
    LET rows == {b \in bars : b.symbol = s /\ b.trade_date <= d}
    IN  [k \in 1..Cardinality(rows) |->
            CHOOSE b \in rows :
                Cardinality({o \in rows : o.trade_date < b.trade_date}) = k - 1]

\* what the indicator engine yields for the last day of a history
EngineAt(bars, s, d) ==
    LET h == HistoryUpTo(bars, s, d)
    IN  MetricRow(h, Len(h))

\* C10 as claimed: every stored indicator row holds the sma_5, momentum_5d and
\* signal the engine yields over the whole stored bar history of its symbol up
\* to its day.
C10_IndicatorsFromStoredHistory ==
    \A m \in sess.metrics :
        LET e == EngineAt(sess.bars, m.symbol, m.trade_date)
        IN  /\ m.sma_5 = e.sma_5
            /\ m.momentum_5d = e.momentum_5d
            /\ m.signal = e.signal

\* the same data steps over windows inside the first SpanDays days
ShortWindows ==
    {WindowOf(syms, a, b) : syms \in SymbolLists, a \in 1..SpanDays, b \in 1..SpanDays}

ShortDataSteps ==
    /\ call.n < MaxApply
    /\ \E got \in ShortWindows :
          LET computed == compute_quant_metrics(got)
              p == _upsert_rows(sess.bars, got, dialect, rowwise, clock)
              m == _upsert_rows(sess.metrics, computed, dialect, rowwise, clock)
          IN  /\ prices' = got
              /\ metrics' = computed
              /\ sess' = IF got = <<>> \/ p.raised # "none" \/ m.raised # "none"
                         THEN sess
                         ELSE [sess EXCEPT !.bars = p.table, !.metrics = m.table]
    /\ call' = [n |-> call.n + 1]
    /\ UNCHANGED <<dialect, rowwise, clock, db, pc, issued, run_id, rows_written, details,
                   counts, exc, raised, file, faulted, atOpen, retention_days, statuses,
                   stopped>>

NextKeys == ShortDataSteps \/ Tick

SpecKeys == InitStore /\ [][NextKeys]_vars

\* C13: after any sequence of applied and undone data steps, over windows that
\* overlap or not, every row of the metrics table has a row of the bar table
\* with the same (symbol, trade_date), in the session's tables and in the
\* committed ones.
C13_MetricsHaveBars ==
    /\ \A m \in sess.metrics : \E b \in sess.bars : Key(b) = Key(m)
    /\ \A m \in db.metrics : \E b \in db.bars : Key(b) = Key(m)

\* two applications at different times over overlapping windows of one symbol:
\* the later one rewrote a day of the earlier and left another day of it alone
C13_Witness ==
    /\ call.n = 2
    /\ \E m, o \in sess.metrics :
          /\ m.symbol = o.symbol
          /\ m.updated_at < o.updated_at
          /\ \E i \in DOMAIN prices : Key(prices[i]) = Key(o)
          /\ \A i \in DOMAIN prices : Key(prices[i]) # Key(m)
    /\ Cardinality(sess.bars) = Cardinality(sess.metrics)
    /\ Cardinality(sess.metrics) > Len(prices)


-----------------------------------------------------------------------------
(* Store level: refresh_dashboard_snapshot on a snapshot table that holds the *)
(* snapshots of earlier refreshes.  Time and retention_days are in days.      *)

\* a snapshot row an earlier refresh left, generated at day g (g <= 0)
OldSnapshot(g, s) ==
    [snapshot_id  |-> g,
     symbol       |-> s,
     trade_date   |-> 1,
     close        |-> Quote(s, 1),
     sma_5        |-> SmaScale * Quote(s, 1),
     momentum_5d  |-> 0,
     signal       |-> "SELL",
     generated_at |-> g]

StoredSnapshots == SUBSET {OldSnapshot(g, s) : g \in (0 - MaxAge)..0, s \in Symbols}

\* metric tables as the persister leaves them: the engine's row of each quote
StoredMetrics ==
    SUBSET {Enrich(compute_quant_metrics(<<r>>)[1], 0) : r \in QuotedRows}

InitRetention ==
    /\ dialect = "sqlite"
    /\ rowwise = FALSE
    /\ retention_days \in 0..MaxRetention
    /\ clock = 0
    /\ \E sn \in StoredSnapshots : \E mt \in StoredMetrics :
          sess = [EmptyTables EXCEPT !.snaps = sn, !.metrics = mt]
    /\ db = EmptyTables
    /\ pc = "idle"
    /\ issued = 0
    /\ run_id = 0
    /\ prices = <<>>
    /\ metrics = <<>>
    /\ rows_written = 0
    /\ details = NoDetails
    /\ counts = NoCounts
    /\ exc = Null
    /\ raised = Null
    /\ file = Null
    /\ faulted = FALSE
    /\ atOpen = DataOf(EmptyTables)
    /\ call = NoCall
    /\ statuses = <<>>
    /\ stopped = "none"

\* pipeline.py lines 58-60 under the run id of a new run
RefreshCall ==
    /\ call.n < MaxApply
    /\ issued' = issued + 1
    /\ run_id' = new_run_id(issued)
    /\ LET r == refresh_dashboard_snapshot(sess.snaps, sess.metrics, run_id',
                                           retention_days, clock)
       IN  /\ sess' = [sess EXCEPT !.snaps = r.table]
           /\ counts' = [counts EXCEPT !.snapshot_rows = r.snapshot_rows,
                                       !.deleted_old_snapshots = r.deleted_old_snapshots]
           /\ call' = [n |-> call.n + 1, before |-> sess.snaps, now |-> clock]
    /\ UNCHANGED <<dialect, rowwise, clock, db, pc, prices, metrics, rows_written,
                   details, exc, raised, file, faulted, atOpen, retention_days,
                   statuses, stopped>>

NextRetention == RefreshCall \/ Tick

SpecRetention == InitRetention /\ [][NextRetention]_vars

\* the rows a refresh inserts: the latest metric row of each symbol, under the
\* run's id, generated at the time of the call
InsertedBy(rid) ==
    {s \in sess.snaps : s.snapshot_id = rid}

\* C12: after a refresh at time t with retention_days = d the snapshot table
\* holds the earlier rows whose generated_at is not before t - d and the rows
\* this refresh inserted (one per symbol of the metrics table, generated at t),
\* and nothing else; no row generated before t - d is left.
C12_Retention ==
    call.n >= 1 =>
        LET keep_after == call.now - retention_days
            kept       == {s \in call.before : s.generated_at >= keep_after}
            inserted   == InsertedBy(run_id)
        IN  /\ sess.snaps = kept \cup inserted
            /\ \A s \in inserted : s.generated_at = call.now /\ s \notin call.before
            /\ {s.symbol : s \in inserted} = {m.symbol : m \in sess.metrics}
            /\ Cardinality(inserted) = counts.snapshot_rows
            /\ \A s \in sess.snaps : ~(s.generated_at < keep_after)
            /\ counts.deleted_old_snapshots = Cardinality(call.before \ kept)

\* a refresh with a positive retention dropped an older snapshot, kept a
\* younger one generated before the call, kept one generated exactly at
\* t - d, and inserted its own rows
C12_Witness ==
    /\ call.n >= 1
    /\ retention_days > 0
    /\ \E s \in call.before : s \notin sess.snaps
    /\ \E s \in call.before : s \in sess.snaps /\ s.generated_at < call.now
    /\ \E s \in sess.snaps : s.generated_at = call.now - retention_days
    /\ InsertedBy(run_id) # {}

-----------------------------------------------------------------------------
(* Recommendations: export.py, _build_recommendations.  expected_annual_return *)
(* is an integer in 1e-2; a row carries the columns the function reads, the    *)
(* other columns are copied through unread.                                    *)

Max(a, b) == IF a > b THEN a ELSE b

\* the four conditions of the candidates comprehension
Eligible(row, target_annual_return) ==
    /\ row.expected_annual_return >= target_annual_return
    /\ row.total_score >= ScoreFloor
    /\ row.mid_signal = "BUY"
    /\ row.long_signal = "BUY"

\* key=(expected_annual_return, total_score), compared as tuples
KeyAbove(a, b) ==
    \/ a.expected_annual_return > b.expected_annual_return
    \/ /\ a.expected_annual_return = b.expected_annual_return
       /\ a.total_score > b.total_score

\* list.sort(key=..., reverse=True): descending, equal keys keep their order
SortedDescending(c) ==
    [k \in 1..Len(c) |->
        c[CHOOSE i \in DOMAIN c :
            k = 1 + Cardinality({j \in DOMAIN c :
                                   KeyAbove(c[j], c[i]) \/ (~KeyAbove(c[i], c[j]) /\ j < i)})]]

\* a slice bound taken as given
PickCap_raw(max_recommendations) == max_recommendations

\* max(1, max_recommendations)
PickCap(max_recommendations) == Max(1, max_recommendations)

_build_recommendations(stock_table, target_annual_return, max_recommendations) ==
    LET candidates == SelectSeq(stock_table, LAMBDA row : Eligible(row, target_annual_return))
        ordered    == SortedDescending(candidates)
        picks      == SubSeq(ordered, 1, Min(Len(ordered), PickCap(max_recommendations)))
    IN  [k \in 1..Len(picks) |->
            [symbol                 |-> picks[k].symbol,
             expected_annual_return |-> picks[k].expected_annual_return,
             total_score            |-> picks[k].total_score]]

\* scored rows around the thresholds: at, under and over the target return,
\* at and over the score floor, and one failing each of the other conditions
Returns == 1..3
Targets == {2, 3}
ScoredKinds ==
    {[total_score |-> ScoreFloor,     mid_signal |-> "BUY",  long_signal |-> "BUY"],
     [total_score |-> ScoreFloor + 1, mid_signal |-> "BUY",  long_signal |-> "BUY"],
     [total_score |-> ScoreFloor - 1, mid_signal |-> "BUY",  long_signal |-> "BUY"],
     [total_score |-> ScoreFloor + 1, mid_signal |-> "SELL", long_signal |-> "BUY"],
     [total_score |-> ScoreFloor + 1, mid_signal |-> "BUY",  long_signal |-> "SELL"]}
ScoredRows ==
    {[expected_annual_return |-> e, total_score |-> k.total_score,
      mid_signal |-> k.mid_signal, long_signal |-> k.long_signal] :
        e \in Returns, k \in ScoredKinds}

\* a stock table has one row per symbol: the symbol is the row's position
StockTables ==
    {[i \in DOMAIN t |->
        [symbol                 |-> i,
         expected_annual_return |-> t[i].expected_annual_return,
         total_score            |-> t[i].total_score,
         mid_signal             |-> t[i].mid_signal,
         long_signal            |-> t[i].long_signal]] : t \in SeqsUpTo(ScoredRows, MaxTable)}

InitRecommend ==
    /\ dialect = "sqlite"
    /\ rowwise = FALSE
    /\ retention_days = 0
    /\ clock = 0
    /\ sess = EmptyTables
    /\ db = EmptyTables
    /\ pc = "idle"
    /\ issued = 0
    /\ run_id = 0
    /\ prices = <<>>
    /\ metrics = <<>>
    /\ rows_written = 0
    /\ details = NoDetails
    /\ counts = NoCounts
    /\ exc = Null
    /\ raised = Null
    /\ file = Null
    /\ faulted = FALSE
    /\ atOpen = DataOf(EmptyTables)
    /\ \E t \in StockTables : \E g \in Targets : \E m \in (0 - 1)..MaxPicks :
          call = [n |-> 0, stock_table |-> t, target_annual_return |-> g,
                  max_recommendations |-> m, recommendations |-> <<>>]
    /\ statuses = <<>>
    /\ stopped = "none"

\* export.py lines 210-214
Recommend ==
    /\ call.n = 0
    /\ call' = [call EXCEPT
                  !.n = 1,
                  !.recommendations =
                      _build_recommendations(call.stock_table, call.target_annual_return,
                                             call.max_recommendations)]
    /\ UNCHANGED <<dialect, rowwise, clock, db, sess, pc, issued, run_id, prices, metrics,
                   rows_written, details, counts, exc, raised, file, faulted, atOpen,
                   retention_days, statuses, stopped>>

NextRecommend == Recommend

SpecRecommend == InitRecommend /\ [][NextRecommend]_vars

\* the rows of the table that meet all four conditions
EligibleIn(t, target) == {i \in DOMAIN t : Eligible(t[i], target)}

\* C14: the recommendations are min(max(1, max_recommendations), number of
\* eligible rows) entries, each one an eligible row of the table, no row
\* twice, in descending order of (expected_annual_return, total_score), and no
\* eligible row left out ranks above one that was taken.
C14_Recommendations ==
    call.n = 1 =>
        LET t      == call.stock_table
            target == call.target_annual_return
            out    == call.recommendations
            cap    == IF call.max_recommendations > 1 THEN call.max_recommendations ELSE 1
            ok     == EligibleIn(t, target)
            taken  == {out[k].symbol : k \in DOMAIN out}
        IN  /\ Len(out) = Min(cap, Cardinality(ok))
            /\ Len(out) <= cap
            /\ taken \subseteq ok
            /\ Cardinality(taken) = Len(out)
            /\ \A k \in DOMAIN out :
                  /\ out[k].expected_annual_return = t[out[k].symbol].expected_annual_return
                  /\ out[k].total_score = t[out[k].symbol].total_score
            /\ \A k, l \in DOMAIN out : k < l => ~KeyAbove(out[l], out[k])
            /\ \A i \in ok \ taken : \A k \in DOMAIN out : ~KeyAbove(t[i], out[k])

\* max_recommendations <= 0 still yields one pick: the best of several
\* eligible rows, which is not the first row of the table, beside a row with a
\* higher return that is not eligible
C14_Witness ==
    /\ call.n = 1
    /\ call.max_recommendations <= 0
    /\ Len(call.recommendations) = 1
    /\ Cardinality(EligibleIn(call.stock_table, call.target_annual_return)) >= 2
    /\ call.recommendations[1].symbol # 1
    /\ \E i \in DOMAIN call.stock_table :
          /\ ~Eligible(call.stock_table[i], call.target_annual_return)
          /\ call.stock_table[i].expected_annual_return
                > call.recommendations[1].expected_annual_return

-----------------------------------------------------------------------------
(* Scoring: export.py, _compute_stock_table, for one symbol's close history.   *)
(* A momentum is kept as an exact fraction [num, den]; the mid and long scores *)
(* are exact.  The short score uses the 10-day volatility, a square root: the  *)
(* returns are held in 1e-4, the score terms in 1e-3 points.                   *)

Fraction(n, d) == [num |-> n, den |-> d]

\* values[len(values) - back - 1], None when the history is too short
_safe_prev(values, back) ==
    IF Len(values) - back < 1 THEN Null ELSE Some(values[Len(values) - back])

\* (current / base) - 1.0, 0.0 for a missing or zero base
_pct_change(current, base) ==
    IF base = Null \/ base = Some(0) THEN Fraction(0, 1)
    ELSE Fraction(current - base[1], base[1])

RECURSIVE SumOf(_, _, _)
SumOf(values, from, to) ==
    IF from > to THEN 0 ELSE values[from] + SumOf(values, from + 1, to)

\* sum(use) / len(use) over the last min(window, len(values)) values
_rolling_mean(values, window) ==
    IF values = <<>> THEN Fraction(0, 1)
    ELSE LET k == Min(window, Len(values))
         IN  Fraction(SumOf(values, Len(values) - k + 1, Len(values)), k)

FractionAbove(a, b) == a.num * b.den > b.num * a.den

\* int(round(_clamp(value, 0, 100))) of value = n / d
_clamp_score(n, d) == Max(0, Min(100, RoundHalfEven(n, d)))

\* largest r in lo..hi with r * r <= x
RECURSIVE RootIn(_, _, _)
RootIn(x, lo, hi) ==
    IF lo >= hi THEN lo
    ELSE LET mid == (lo + hi + 1) \div 2
         IN  IF mid * mid <= x THEN RootIn(x, mid, hi) ELSE RootIn(x, lo, mid - 1)

\* population standard deviation of the returns (in 1e-4)
_std(values) ==
    IF values = <<>> THEN 0
    ELSE LET n    == Len(values)
             mean == RoundHalfEven(SumOf(values, 1, n), n)
             devs == [i \in 1..n |-> (values[i] - mean) * (values[i] - mean)]
         IN  RootIn(RoundHalfEven(SumOf(devs, 1, n), n), 0, 40000)

\* the day-on-day returns of the last 10 closes (in 1e-4)
returns_10(closes) ==
    LET first == Max(2, Len(closes) - 8)
    IN  [k \in 1..(Len(closes) - first + 1) |->
            RoundHalfEven(10000 * (closes[first + k - 1] - closes[first + k - 2]),
                          closes[first + k - 2])]

\* a score term weight * fraction, in 1e-3 points
Term(weight, f) == RoundHalfEven(1000 * weight * f.num, f.den)

\* export.py lines 79-113 for one symbol
ScoreHistory(closes) ==
    LET current_price == closes[Len(closes)]
        sma_20   == _rolling_mean(closes, 20)
        sma_60   == _rolling_mean(closes, 60)
        sma_200  == _rolling_mean(closes, 200)
        mom_1d   == _pct_change(current_price, _safe_prev(closes, 1))
        mom_5d   == _pct_change(current_price, _safe_prev(closes, 5))
        mom_20d  == _pct_change(current_price, _safe_prev(closes, 20))
        mom_60d  == _pct_change(current_price, _safe_prev(closes, 60))
        vol_10d  == _std(returns_10(closes))
        price    == Fraction(current_price, 1)
        short_score ==
            _clamp_score(50000 + Term(900, mom_5d) + Term(500, mom_1d) - 120 * vol_10d, 1000)
        mid_score ==
            _clamp_score(50000 + Term(420, mom_20d) + Term(180, mom_5d)
                            + (IF FractionAbove(sma_20, sma_60) THEN 10000 ELSE 0 - 10000),
                         1000)
        long_score ==
            _clamp_score(50000 + Term(380, mom_60d)
                            + (IF FractionAbove(price, sma_60) THEN 8000 ELSE 0 - 8000)
                            + (IF FractionAbove(price, sma_200) THEN 6000 ELSE 0 - 6000),
                         1000)
    IN  [short_score  |-> short_score,
         mid_score    |-> mid_score,
         long_score   |-> long_score,
         total_score  |-> _clamp_score(25 * short_score + 35 * mid_score + 40 * long_score, 100),
         short_signal |-> IF short_score >= ScoreFloor THEN "BUY" ELSE "SELL",
         mid_signal   |-> IF mid_score >= ScoreFloor THEN "BUY" ELSE "SELL",
         long_signal  |-> IF long_score >= ScoreFloor THEN "BUY" ELSE "SELL"]

\* strictly increasing close series (in cents): a first close and daily rises
FirstCloses == {1, 100}
Rises == {1, 2}
RECURSIVE Rising(_)
Rising(n) ==
    IF n = 1 THEN {<<f>> : f \in FirstCloses}
    ELSE {Append(q, q[Len(q)] + r) : q \in Rising(n - 1), r \in Rises}

CloseSeries == UNION {Rising(n) : n \in MinObs..MaxObs}

InitScore ==
    /\ dialect = "sqlite"
    /\ rowwise = FALSE
    /\ retention_days = 0
    /\ clock = 0
    /\ sess = EmptyTables
    /\ db = EmptyTables
    /\ pc = "idle"
    /\ issued = 0
    /\ run_id = 0
    /\ prices = <<>>
    /\ metrics = <<>>
    /\ rows_written = 0
    /\ details = NoDetails
    /\ counts = NoCounts
    /\ exc = Null
    /\ raised = Null
    /\ file = Null
    /\ faulted = FALSE
    /\ atOpen = DataOf(EmptyTables)
    /\ \E closes \in CloseSeries : call = [n |-> 0, closes |-> closes, scored |-> Null]
    /\ statuses = <<>>
    /\ stopped = "none"

\* export.py lines 204-209, for the one symbol of the table
Score ==
    /\ call.n = 0
    /\ call' = [call EXCEPT !.n = 1, !.scored = Some(ScoreHistory(call.closes))]
    /\ UNCHANGED <<dialect, rowwise, clock, db, sess, pc, issued, run_id, prices, metrics,
                   rows_written, details, counts, exc, raised, file, faulted, atOpen,
                   retention_days, statuses, stopped>>

NextScore == Score

SpecScore == InitScore /\ [][NextScore]_vars

\* C15 as claimed: a strictly increasing close history of 5 to 10 days scores
\* BUY at the short, the mid and the long horizon, with total_score >= 55.
C15_RisingSeriesAllBuy ==
    call.n = 1 =>
        /\ call.scored[1].short_signal = "BUY"
        /\ call.scored[1].mid_signal = "BUY"
        /\ call.scored[1].long_signal = "BUY"
        /\ call.scored[1].total_score >= ScoreFloor

====
